---- MODULE Spec2Model ----
(***************************************************************************)
(* A model of `cross`: the host/target policy (src/main.rs Host, Target),  *)
(* the subcommand classifier (src/cargo.rs Subcommand) and the run()       *)
(* pipeline of src/main.rs, with every external collaborator (rustc,       *)
(* rustup, docker, interpreter, cargo) answering nondeterministically.     *)
(***************************************************************************)
EXTENDS Naturals, Sequences, FiniteSets, TLC

(***************************************************************************)
(* Bounds of the model.                                                    *)
(***************************************************************************)
\* most tokens after the verb on the command line of run()
MaxFlags == 1
\* longest argument list handed to the argument rewrite on its own
MaxRewriteArgs == 4
\* most packages in the answer of cargo metadata
MaxPackages == 3

(***************************************************************************)
(* Option<T>: None is the empty sequence, Some(x) the one-element one.     *)
(***************************************************************************)
None == << >>
Some(x) == << x >>
IsSome(o) == o # << >>
Unwrap(o) == o[1]

(***************************************************************************)
(* str helpers, computed character by character.                           *)
(***************************************************************************)
StartsWith(s, p) == Len(s) >= Len(p) /\ SubSeq(s, 1, Len(p)) = p

Contains(s, p) ==
    \E i \in 1..(Len(s) + 1) :
        i + Len(p) - 1 <= Len(s) /\ SubSeq(s, i, i + Len(p) - 1) = p

(***************************************************************************)
(* Host (src/main.rs).  A host is a record: the enum variant and, for      *)
(* Other, the triple it carries ("" for the closed variants).              *)
(***************************************************************************)
HostOf(v) == [variant |-> v, s |-> ""]
HostOther(s) == [variant |-> "Other", s |-> s]

HostFrom(s) ==
    CASE s = "x86_64-apple-darwin" -> HostOf("X86_64AppleDarwin")
      [] s = "x86_64-unknown-linux-gnu" -> HostOf("X86_64UnknownLinuxGnu")
      [] s = "x86_64-unknown-linux-musl" -> HostOf("X86_64UnknownLinuxMusl")
      [] s = "x86_64-pc-windows-msvc" -> HostOf("X86_64PcWindowsMsvc")
      [] s = "aarch64-apple-darwin" -> HostOf("Aarch64AppleDarwin")
      [] s = "aarch64-unknown-linux-gnu" -> HostOf("Aarch64UnknownLinuxGnu")
      [] s = "aarch64-unknown-linux-musl" -> HostOf("Aarch64UnknownLinuxMusl")
      [] OTHER -> HostOther(s)

HostTriple(h) ==
    CASE h.variant = "X86_64AppleDarwin" -> "x86_64-apple-darwin"
      [] h.variant = "Aarch64AppleDarwin" -> "aarch64-apple-darwin"
      [] h.variant = "X86_64UnknownLinuxGnu" -> "x86_64-unknown-linux-gnu"
      [] h.variant = "Aarch64UnknownLinuxGnu" -> "aarch64-unknown-linux-gnu"
      [] h.variant = "X86_64UnknownLinuxMusl" -> "x86_64-unknown-linux-musl"
      [] h.variant = "Aarch64UnknownLinuxMusl" -> "aarch64-unknown-linux-musl"
      [] h.variant = "X86_64PcWindowsMsvc" -> "x86_64-pc-windows-msvc"
      [] OTHER -> h.s

(***************************************************************************)
(* Target (src/main.rs): BuiltIn { triple } or Custom { triple }.          *)
(***************************************************************************)
new_built_in(triple) == [builtin |-> TRUE, triple |-> triple]
new_custom(triple) == [builtin |-> FALSE, triple |-> triple]

\* an equality that looks at the triple alone
TargetEqByTriple(a, b) == a.triple = b.triple

\* #[derive(PartialEq, Eq, Hash)] on the enum: same variant and same field
TargetEq(a, b) == a.builtin = b.builtin /\ a.triple = b.triple

is_apple(t) == Contains(t.triple, "apple")
is_bare_metal(t) == Contains(t.triple, "thumb")
is_builtin(t) == t.builtin
is_bsd(t) == Contains(t.triple, "bsd") \/ Contains(t.triple, "dragonfly")
is_solaris(t) == Contains(t.triple, "solaris")
is_android(t) == Contains(t.triple, "android")
is_emscripten(t) == Contains(t.triple, "emscripten")
is_linux(t) == Contains(t.triple, "linux") /\ ~is_android(t)
is_windows(t) == Contains(t.triple, "windows")

\* a needs_docker that leaves Apple targets to the host
needs_docker_without_apple(t) ==
    \/ is_linux(t)
    \/ is_android(t)
    \/ is_bare_metal(t)
    \/ is_bsd(t)
    \/ is_solaris(t)
    \/ ~is_builtin(t)
    \/ is_windows(t)
    \/ is_emscripten(t)

needs_docker(t) ==
    \/ is_linux(t)
    \/ is_android(t)
    \/ is_bare_metal(t)
    \/ is_bsd(t)
    \/ is_solaris(t)
    \/ ~is_builtin(t)
    \/ is_windows(t)
    \/ is_emscripten(t)
    \/ is_apple(t)

target_needs_interpreter(t) ==
    LET native == \/ StartsWith(t.triple, "x86_64")
                  \/ StartsWith(t.triple, "i586")
                  \/ StartsWith(t.triple, "i686")
    IN  ~native /\ (is_linux(t) \/ is_windows(t) \/ is_bare_metal(t))

\* Target::from(triple, target_list)
TargetFrom(triple, target_list) ==
    IF triple \in target_list THEN new_built_in(triple) ELSE new_custom(triple)

(***************************************************************************)
(* Host::is_supported(target).  `compat` is the value of the environment   *)
(* variable CROSS_COMPATIBILITY_VERSION (None when it is not set).         *)
(***************************************************************************)
\* a legacy table whose Windows row forgets to compare the triple with the host's
is_supported_legacy_windows_as_apple(h, target) ==
    IF h.variant = "Other" THEN FALSE
    ELSE IF IsSome(target) THEN needs_docker(Unwrap(target))
    ELSE h.variant \in {"X86_64UnknownLinuxGnu", "Aarch64UnknownLinuxGnu",
                        "X86_64UnknownLinuxMusl", "Aarch64UnknownLinuxMusl"}

is_supported_legacy(h, target) ==
    CASE h.variant \in {"X86_64AppleDarwin", "Aarch64AppleDarwin"} ->
            IF IsSome(target) THEN needs_docker(Unwrap(target)) ELSE FALSE
      [] h.variant \in {"X86_64UnknownLinuxGnu", "Aarch64UnknownLinuxGnu",
                        "X86_64UnknownLinuxMusl", "Aarch64UnknownLinuxMusl"} ->
            IF IsSome(target) THEN needs_docker(Unwrap(target)) ELSE TRUE
      [] h.variant = "X86_64PcWindowsMsvc" ->
            IF IsSome(target)
            THEN /\ Unwrap(target).triple # HostTriple(HostOf("X86_64PcWindowsMsvc"))
                 /\ needs_docker(Unwrap(target))
            ELSE FALSE
      [] OTHER -> FALSE

\* a default policy that wants isolation when no target is given
is_supported_default_without_target(h, target) ==
    IF IsSome(target) THEN needs_docker(Unwrap(target)) ELSE TRUE

is_supported_default(h, target) ==
    IF IsSome(target) THEN needs_docker(Unwrap(target)) ELSE FALSE

\* a switch that takes every version starting with 0.2.1 for the legacy one
is_supported_by_prefix(h, target, compat) ==
    IF IsSome(compat) /\ StartsWith(Unwrap(compat), "0.2.1")
    THEN is_supported_legacy(h, target)
    ELSE is_supported_default(h, target)

is_supported(h, target, compat) ==
    IF compat = Some("0.2.1")
    THEN is_supported_legacy(h, target)
    ELSE is_supported_default(h, target)

(***************************************************************************)
(* Subcommand (src/cargo.rs).                                              *)
(***************************************************************************)
SubcommandFrom(s) ==
    CASE s \in {"b", "build"} -> "Build"
      [] s \in {"c", "check"} -> "Check"
      [] s = "doc" -> "Doc"
      [] s \in {"r", "run"} -> "Run"
      [] s = "rustc" -> "Rustc"
      [] s \in {"t", "test"} -> "Test"
      [] s = "bench" -> "Bench"
      [] s = "deb" -> "Deb"
      [] s = "clippy" -> "Clippy"
      [] s = "metadata" -> "Metadata"
      [] OTHER -> "Other"

sc_needs_docker(sc) == sc # "Other"
\* a needs_interpreter that takes build for a subcommand that runs binaries
sc_needs_interpreter_with_build(sc) == sc \in {"Run", "Test", "Bench", "Build"}
sc_needs_interpreter(sc) == sc \in {"Run", "Test", "Bench"}
needs_target_in_command(sc) == sc # "Metadata"

(***************************************************************************)
(* The argument rewrite of run() (src/main.rs 352-376).                    *)
(***************************************************************************)
RECURSIVE StripFromKeepsValue(_, _)
\* a strip loop that drops the flag and forgets the value after it
StripFromKeepsValue(all, i) ==
    IF i > Len(all) THEN << >>
    ELSE IF all[i] = "--target" THEN StripFromKeepsValue(all, i + 1)
    ELSE IF StartsWith(all[i], "--target=") THEN StripFromKeepsValue(all, i + 1)
    ELSE << all[i] >> \o StripFromKeepsValue(all, i + 1)

RECURSIVE StripFrom(_, _)
\* the `while let Some(arg) = args_iter.next()` loop, from position i on
StripFrom(all, i) ==
    IF i > Len(all) THEN << >>
    ELSE IF all[i] = "--target" THEN StripFrom(all, i + 2)
    ELSE IF StartsWith(all[i], "--target=") THEN StripFrom(all, i + 1)
    ELSE << all[i] >> \o StripFrom(all, i + 1)

\* a presence test that only knows the `--target=<value>` form
HasTargetPrefixWithValue(all) == \E i \in 1..Len(all) : StartsWith(all[i], "--target=")

HasTargetPrefix(all) == \E i \in 1..Len(all) : StartsWith(all[i], "--target")

FilteredArgs(subcommand, all, target) ==
    IF IsSome(subcommand) /\ ~needs_target_in_command(Unwrap(subcommand))
    THEN StripFrom(all, 1)
    ELSE IF ~HasTargetPrefix(all)
    THEN all \o << "--target", target.triple >>
    ELSE all

(***************************************************************************)
(* cli::parse is not part of the sources at hand.  Its result is modelled  *)
(* from the specification: every argument is forwarded verbatim in `all`,  *)
(* the subcommand is classified from the first token that is neither a     *)
(* flag nor the value of a target flag, and the explicit target is the     *)
(* value of the target flag, classified against the builtin list.          *)
(***************************************************************************)
RECURSIVE ParseFrom(_, _, _, _)
ParseFrom(argv, i, acc, target_list) ==
    IF i > Len(argv) THEN acc
    ELSE IF argv[i] = "--target"
    THEN IF i + 1 <= Len(argv)
         THEN ParseFrom(argv, i + 2,
                  [acc EXCEPT !.target = Some(TargetFrom(argv[i + 1], target_list))],
                  target_list)
         ELSE acc
    ELSE IF StartsWith(argv[i], "--target=")
    THEN ParseFrom(argv, i + 1,
             [acc EXCEPT !.target =
                 Some(TargetFrom(SubSeq(argv[i], 10, Len(argv[i])), target_list))],
             target_list)
    ELSE IF argv[i] = "--target-dir"
    THEN ParseFrom(argv, i + 2, acc, target_list)
    ELSE IF ~StartsWith(argv[i], "-") /\ ~IsSome(acc.subcommand)
    THEN ParseFrom(argv, i + 1,
             [acc EXCEPT !.subcommand = Some(SubcommandFrom(argv[i]))], target_list)
    ELSE ParseFrom(argv, i + 1, acc, target_list)

cli_parse(argv, target_list) ==
    ParseFrom(argv, 1, [all |-> argv, subcommand |-> None, target |-> None],
              target_list)

(***************************************************************************)
(* The toolchain name of run() (src/main.rs 294-307).                      *)
(***************************************************************************)
\* position of the first '-' of s, 0 when there is none
FirstHyphen(s) ==
    IF \E i \in 1..Len(s) : SubSeq(s, i, i) = "-"
    THEN CHOOSE i \in 1..Len(s) :
            /\ SubSeq(s, i, i) = "-"
            /\ \A j \in 1..(i - 1) : SubSeq(s, j, j) # "-"
    ELSE 0

\* a toolchain name that forgets the rest of the default name
ToolchainNameChannelOnly(channel, default_toolchain) ==
    IF IsSome(channel) THEN Unwrap(channel) ELSE default_toolchain

\* [channel].chain(default_toolchain.splitn(2, '-').skip(1)).join("-")
ToolchainName(channel, default_toolchain) ==
    IF IsSome(channel)
    THEN IF FirstHyphen(default_toolchain) = 0
         THEN Unwrap(channel)
         ELSE Unwrap(channel) \o "-"
              \o SubSeq(default_toolchain, FirstHyphen(default_toolchain) + 1,
                        Len(default_toolchain))
    ELSE default_toolchain

(***************************************************************************)
(* The worlds run() is started in.                                         *)
(***************************************************************************)
\* rustc::target_list(false): the triples the local compiler ships
BuiltinTriples ==
    {"x86_64-apple-darwin", "aarch64-apple-darwin", "x86_64-unknown-linux-gnu",
     "aarch64-unknown-linux-gnu", "x86_64-unknown-linux-musl",
     "aarch64-unknown-linux-musl", "x86_64-pc-windows-msvc",
     "x86_64-unknown-illumos", "wasm32-unknown-unknown"}

\* version_meta.host(): the seven closed variants and one Other
Hosts ==
    {HostFrom(s) : s \in {"x86_64-apple-darwin", "aarch64-apple-darwin",
                          "x86_64-unknown-linux-gnu", "aarch64-unknown-linux-gnu",
                          "x86_64-unknown-linux-musl", "aarch64-unknown-linux-musl",
                          "x86_64-pc-windows-msvc", "x86_64-unknown-illumos"}}

\* the hosts run() is started on: one of each row of the legacy table
RunHosts ==
    {HostFrom(s) : s \in {"aarch64-apple-darwin", "x86_64-unknown-linux-gnu",
                          "x86_64-pc-windows-msvc", "x86_64-unknown-illumos"}}

\* CROSS_COMPATIBILITY_VERSION when run() is started: unset, or the legacy version
CompatValues == {None, Some("0.2.1")}

\* CARGO: unset, or the path of another binary
CargoEnvValues == {None, Some("/opt/cargo")}

SeqsUpTo(S, n) == UNION {[1..k -> S] : k \in 0..n}

\* the command lines run() is started with: a verb, or none, and then up to
\* MaxFlags of the flags below, each at most once and in this order
Verbs == {<< >>, << "build" >>, << "test" >>, << "clippy" >>, << "metadata" >>,
          << "fmt" >>}
FlagTokens == << "--target=aarch64-unknown-linux-gnu", "--target-dir" >>

RECURSIVE FlagsFrom(_, _)
\* the flags whose positions are in `chosen`, from position i on
FlagsFrom(chosen, i) ==
    IF i > Len(FlagTokens) THEN << >>
    ELSE (IF i \in chosen THEN << FlagTokens[i] >> ELSE << >>) \o FlagsFrom(chosen, i + 1)

CommandLines ==
    {verb \o FlagsFrom(chosen, 1) :
        verb \in Verbs,
        chosen \in {c \in SUBSET DOMAIN FlagTokens : Cardinality(c) <= MaxFlags}}

\* config.target(&target_list): no target in Cross.toml, or one
ConfigTargets ==
    {None, Some(TargetFrom("aarch64-unknown-linux-gnu", BuiltinTriples)),
     Some(TargetFrom("wasm32-unknown-unknown", BuiltinTriples))}

\* the sysroot's file name
DefaultToolchains == {"stable-x86_64-unknown-linux-gnu"}
\* args.channel
Channels == {None, Some("nightly")}
\* what rustup::installed_toolchains may list
InstalledToolchainLists == {{}, {"stable-x86_64-unknown-linux-gnu"}}
\* the exit statuses of the final execution
ExitStatuses == {0, 101}

(***************************************************************************)
(* The state of one run of run() (src/main.rs 264-408).                    *)
(*   pc             the statement run() is at                              *)
(*   argv           the command line the user typed                        *)
(*   args           cli::parse(argv): all, subcommand, target              *)
(*   host           version_meta.host()                                    *)
(*   compat         the environment variable CROSS_COMPATIBILITY_VERSION   *)
(*   cargo_env      the environment variable CARGO                         *)
(*   config_target  config.target(&target_list)                            *)
(*   target         the resolved target (None until line 287)              *)
(*   channel        args.channel, as read at line 298                      *)
(*   toolchain, uses_xargo, image_exists, filtered_args                    *)
(*                  the locals of run() of these names                     *)
(*   calls          the calls made to the collaborators so far, in order   *)
(*   result         what run() returned, and which call decided it         *)
(*   probe          a single call of Host::is_supported on its own         *)
(***************************************************************************)
VARIABLES pc, argv, args, host, compat, cargo_env, config_target, target,
          channel, toolchain, uses_xargo, image_exists, filtered_args,
          calls, result, probe

vars == << pc, argv, args, host, compat, cargo_env, config_target, target,
           channel, toolchain, uses_xargo, image_exists, filtered_args,
           calls, result, probe >>

world == << argv, host, compat, cargo_env, probe >>
locals == << args, config_target, target, channel, toolchain, uses_xargo,
             image_exists, filtered_args >>

\* one call to a collaborator: the function, what it was given, what it answered
Call(f, a, r) == [fn |-> f, arg |-> a, ret |-> r]
Returns(v) == [ok |-> TRUE, val |-> v]
Fails == [ok |-> FALSE, val |-> "error"]
Unit == "()"

Running == [kind |-> "Running", by |-> "", status |-> 0]
Err(stage) == [kind |-> "Err", by |-> stage, status |-> 0]
Ok(stage, status) == [kind |-> "Ok", by |-> stage, status |-> status]
NoArgs == [all |-> << >>, subcommand |-> None, target |-> None]
NoProbe == [fn |-> "none", out |-> FALSE]

\* a `?` that swallows the error and falls back to the pass-through
AbortFallsBack(stage) ==
    /\ pc' = "cargo_run"
    /\ result' = result

\* a `?` of run(): the error of `stage` is returned at once
Abort(stage) ==
    /\ pc' = "done"
    /\ result' = Err(stage)

\* a run that succeeds whenever its final call could be started, whatever
\* the exit status of that call
RunResultDropsStatus(stage, ret) == IF ret.ok THEN Ok(stage, 0) ELSE Err(stage)

\* `return docker::run(..)` and the tail call `cargo::run(..)`: the answer of
\* the final call is the result of run()
RunResult(stage, ret) == IF ret.ok THEN Ok(stage, ret.val) ELSE Err(stage)

\* what the final call may answer
FinalAnswers == {Fails} \cup {Returns(status) : status \in ExitStatuses}

\* where run() is started: every host under either policy with CARGO unset,
\* and the Linux host under the default policy with CARGO set
Environments ==
    {<< h, c, None >> : h \in RunHosts, c \in CompatValues} \cup
    {<< HostFrom("x86_64-unknown-linux-gnu"), None, e >> : e \in CargoEnvValues}

Init ==
    /\ pc = "start"
    /\ argv \in CommandLines
    /\ \E e \in Environments :
          /\ host = e[1]
          /\ compat = e[2]
          /\ cargo_env = e[3]
    /\ args = NoArgs
    /\ config_target = None
    /\ target = None
    /\ channel = None
    /\ toolchain = ""
    /\ uses_xargo = FALSE
    /\ image_exists = FALSE
    /\ filtered_args = << >>
    /\ calls = << >>
    /\ result = Running
    /\ probe = NoProbe

\* lines 265-282: the target list, cli::parse, the version of rustc, the cwd
Prelude ==
    /\ pc = "start"
    /\ \/ /\ calls' = << Call("rustc::target_list", Unit, Fails) >>
          /\ Abort("rustc::target_list")
          /\ UNCHANGED args
       \/ /\ calls' = << Call("rustc::target_list", Unit, Returns(Unit)),
                         Call("rustc_version::version_meta", Unit, Fails) >>
          /\ Abort("rustc_version::version_meta")
          /\ args' = cli_parse(argv, BuiltinTriples)
       \/ /\ calls' = << Call("rustc::target_list", Unit, Returns(Unit)),
                         Call("rustc_version::version_meta", Unit, Returns(Unit)) >>
          /\ pc' = "metadata"
          /\ args' = cli_parse(argv, BuiltinTriples)
          /\ UNCHANGED result
    /\ UNCHANGED << world, config_target, target, channel, toolchain, uses_xargo,
                    image_exists, filtered_args >>

\* the binary of cargo_metadata_with_args (src/cargo.rs 101-105)
MetadataBinary(env) == IF IsSome(env) THEN Unwrap(env) ELSE "cargo"

\* an `if let` that goes on to the configuration without a project
AfterMetadataAlwaysConfigures(answer) == "config"

\* line 283, `if let Some(metadata) = ..`: where run() goes on after the answer
AfterMetadata(answer) == IF IsSome(answer) THEN "config" ELSE "cargo_run"

\* line 283 and src/cargo.rs 97-146: the metadata query; its answer is an
\* error, no project (None) or the metadata of the project
Metadata ==
    /\ pc = "metadata"
    /\ \/ /\ calls' = Append(calls, Call("cargo metadata", MetadataBinary(cargo_env),
                                         Fails))
          /\ Abort("cargo metadata")
       \/ \E answer \in {None, Some("metadata")} :
             /\ calls' = Append(calls, Call("cargo metadata", MetadataBinary(cargo_env),
                                            Returns(answer)))
             /\ pc' = AfterMetadata(answer)
             /\ UNCHANGED result
    /\ UNCHANGED << world, locals >>

\* lines 287-290: the explicit target, else the configured one, else the host
ResolveTarget(a, cfg, h, target_list) ==
    IF IsSome(a.target) THEN Unwrap(a.target)
    ELSE IF IsSome(cfg) THEN Unwrap(cfg)
    ELSE TargetFrom(HostTriple(h), target_list)

\* lines 284-291 and toml(), lines 412-433: Cross.toml, the configuration,
\* the target
Configure ==
    /\ pc = "config"
    /\ \/ /\ calls' = Append(calls, Call("toml", Unit, Fails))
          /\ Abort("toml")
          /\ UNCHANGED << config_target, target >>
       \/ \E cfg \in ConfigTargets :
             /\ calls' = Append(calls, Call("toml", Unit, Returns(Unit)))
             /\ config_target' = cfg
             /\ target' = Some(ResolveTarget(args, cfg, host, BuiltinTriples))
             /\ pc' = "gate"
             /\ UNCHANGED result
    /\ UNCHANGED << world, args, channel, toolchain, uses_xargo, image_exists,
                    filtered_args >>

\* line 292: the host gate
Gate ==
    /\ pc = "gate"
    /\ pc' = IF is_supported(host, Some(Unwrap(target)), compat)
             THEN "sysroot" ELSE "cargo_run"
    /\ UNCHANGED << world, locals, calls, result >>

\* lines 293-308: the sysroot and the name of the toolchain
Sysroot ==
    /\ pc = "sysroot"
    /\ \/ /\ calls' = Append(calls, Call("rustc::sysroot", Unit, Fails))
          /\ Abort("rustc::sysroot")
          /\ UNCHANGED << channel, toolchain >>
       \/ /\ calls' = Append(calls, Call("rustc::sysroot", Unit, Returns(None)))
          /\ Abort("couldn't get toolchain name")
          /\ UNCHANGED << channel, toolchain >>
       \/ \E ch \in Channels, default_toolchain \in DefaultToolchains :
             /\ calls' = Append(calls, Call("rustc::sysroot", Unit,
                                            Returns(Some(default_toolchain))))
             /\ channel' = ch
             /\ toolchain' = ToolchainName(ch, default_toolchain)
             /\ pc' = "installed_toolchains"
             /\ UNCHANGED result
    /\ UNCHANGED << world, args, config_target, target, uses_xargo, image_exists,
                    filtered_args >>

\* a run that takes the toolchain for installed without listing the toolchains
InstalledToolchainsNotListed ==
    /\ pc = "installed_toolchains"
    /\ pc' = "available_targets"
    /\ UNCHANGED << world, locals, calls, result >>

\* lines 310-312: is the toolchain installed?
InstalledToolchains ==
    /\ pc = "installed_toolchains"
    /\ \/ /\ calls' = Append(calls, Call("rustup::installed_toolchains", Unit, Fails))
          /\ Abort("rustup::installed_toolchains")
       \/ \E installed_toolchains \in InstalledToolchainLists :
             /\ calls' = Append(calls, Call("rustup::installed_toolchains", Unit,
                                            Returns(installed_toolchains)))
             /\ pc' = IF \E t \in installed_toolchains : t = toolchain
                      THEN "available_targets" ELSE "install_toolchain"
             /\ UNCHANGED result
    /\ UNCHANGED << world, locals >>

\* line 313
InstallToolchain ==
    /\ pc = "install_toolchain"
    /\ \/ /\ calls' = Append(calls, Call("rustup::install_toolchain", toolchain, Fails))
          /\ Abort("rustup::install_toolchain")
       \/ /\ calls' = Append(calls, Call("rustup::install_toolchain", toolchain,
                                         Returns(Unit)))
          /\ pc' = "available_targets"
          /\ UNCHANGED result
    /\ UNCHANGED << world, locals >>

\* what rustup::available_targets answers about the target:
\* available_targets.contains(&target), available_targets.is_installed(&target)
AvailableTargetsAnswers == [contains : BOOLEAN, is_installed : BOOLEAN]
\* config.xargo(&target): no override, or one
XargoOverrides == {None, Some(TRUE), Some(FALSE)}

\* lines 317-319
UsesXargo(override, t, available) ==
    IF IsSome(override) THEN Unwrap(override)
    ELSE ~is_builtin(t) \/ ~available.contains

\* a target install that does not ask whether the target is installed
InstallsTargetEvenIfInstalled(xargo, available) ==
    ~xargo /\ available.contains

\* a target install that does not ask whether the alternate builder is used
InstallsTargetEvenWithXargo(xargo, available) ==
    ~available.is_installed /\ available.contains

\* lines 321-323: the condition of the target install
InstallsTarget(xargo, available) ==
    ~xargo /\ ~available.is_installed /\ available.contains

\* lines 316-324: the available targets, the alternate builder, what to install
AvailableTargets ==
    /\ pc = "available_targets"
    /\ \/ /\ calls' = Append(calls, Call("rustup::available_targets", toolchain, Fails))
          /\ Abort("rustup::available_targets")
          /\ UNCHANGED uses_xargo
       \/ \E available \in AvailableTargetsAnswers :
             \/ /\ calls' = calls \o
                      << Call("rustup::available_targets", toolchain, Returns(available)),
                         Call("config.xargo", Unwrap(target).triple, Fails) >>
                /\ Abort("config.xargo")
                /\ UNCHANGED uses_xargo
             \/ \E override \in XargoOverrides :
                   /\ calls' = calls \o
                         << Call("rustup::available_targets", toolchain,
                                 Returns(available)),
                            Call("config.xargo", Unwrap(target).triple,
                                 Returns(override)) >>
                   /\ uses_xargo' = UsesXargo(override, Unwrap(target), available)
                   /\ pc' = IF InstallsTarget(uses_xargo', available)
                            THEN "install_target" ELSE "rust_src"
                   /\ UNCHANGED result
    /\ UNCHANGED << world, args, config_target, target, channel, toolchain,
                    image_exists, filtered_args >>

\* line 325
InstallTarget ==
    /\ pc = "install_target"
    /\ \/ /\ calls' = Append(calls, Call("rustup::install", Unwrap(target).triple,
                                         Fails))
          /\ Abort("rustup::install")
       \/ /\ calls' = Append(calls, Call("rustup::install", Unwrap(target).triple,
                                         Returns(Unit)))
          /\ pc' = "clippy"
          /\ UNCHANGED result
    /\ UNCHANGED << world, locals >>

\* line 326: is rust-src installed?
RustSrc ==
    /\ pc = "rust_src"
    /\ \/ /\ calls' = Append(calls, Call("rustup::component_is_installed", "rust-src",
                                         Fails))
          /\ Abort("rustup::component_is_installed")
       \/ \E installed \in BOOLEAN :
             /\ calls' = Append(calls, Call("rustup::component_is_installed",
                                            "rust-src", Returns(installed)))
             /\ pc' = IF installed THEN "clippy" ELSE "install_rust_src"
             /\ UNCHANGED result
    /\ UNCHANGED << world, locals >>

\* line 327
InstallRustSrc ==
    /\ pc = "install_rust_src"
    /\ \/ /\ calls' = Append(calls, Call("rustup::install_component", "rust-src",
                                         Fails))
          /\ Abort("rustup::install_component")
       \/ /\ calls' = Append(calls, Call("rustup::install_component", "rust-src",
                                         Returns(Unit)))
          /\ pc' = "clippy"
          /\ UNCHANGED result
    /\ UNCHANGED << world, locals >>

\* lines 330-335: clippy wanted, and is it installed?
Clippy ==
    /\ pc = "clippy"
    /\ IF args.subcommand = Some("Clippy")
       THEN \/ /\ calls' = Append(calls, Call("rustup::component_is_installed",
                                              "clippy", Fails))
               /\ Abort("rustup::component_is_installed")
            \/ \E installed \in BOOLEAN :
                  /\ calls' = Append(calls, Call("rustup::component_is_installed",
                                                 "clippy", Returns(installed)))
                  /\ pc' = IF installed THEN "image" ELSE "install_clippy"
                  /\ UNCHANGED result
       ELSE /\ pc' = "image"
            /\ UNCHANGED << calls, result >>
    /\ UNCHANGED << world, locals >>

\* line 336
InstallClippy ==
    /\ pc = "install_clippy"
    /\ \/ /\ calls' = Append(calls, Call("rustup::install_component", "clippy", Fails))
          /\ Abort("rustup::install_component")
       \/ /\ calls' = Append(calls, Call("rustup::install_component", "clippy",
                                         Returns(Unit)))
          /\ pc' = "image"
          /\ UNCHANGED result
    /\ UNCHANGED << world, locals >>

\* lines 344-350: the image probe; its failure is a warning, not an error
Image ==
    /\ pc = "image"
    /\ \/ /\ calls' = Append(calls, Call("docker::image", Unwrap(target).triple,
                                         Returns(Unit)))
          /\ image_exists' = TRUE
       \/ /\ calls' = Append(calls, Call("docker::image", Unwrap(target).triple,
                                         Fails))
          /\ image_exists' = FALSE
    /\ pc' = "rewrite"
    /\ UNCHANGED << world, args, config_target, target, channel, toolchain,
                    uses_xargo, filtered_args, result >>

\* lines 352-376: the argument rewrite
Rewrite ==
    /\ pc = "rewrite"
    /\ filtered_args' = FilteredArgs(args.subcommand, args.all, Unwrap(target))
    /\ pc' = "dispatch"
    /\ UNCHANGED << world, args, config_target, target, channel, toolchain,
                    uses_xargo, image_exists, calls, result >>

\* line 339-342: args.subcommand.map(|sc| sc.needs_interpreter()).unwrap_or(false)
NeedsInterpreter(a) ==
    IF IsSome(a.subcommand) THEN sc_needs_interpreter(Unwrap(a.subcommand)) ELSE FALSE

\* a dispatch gate that forgets the image probe
UsesDockerWithoutImage(image, t, a) ==
    /\ needs_docker(t)
    /\ IF IsSome(a.subcommand) THEN sc_needs_docker(Unwrap(a.subcommand)) ELSE FALSE

\* a dispatch gate that forgets the subcommand
UsesDockerAnySubcommand(image, t, a) ==
    /\ image
    /\ needs_docker(t)

\* lines 378-380: the dispatch gate
UsesDocker(image, t, a) ==
    /\ image
    /\ needs_docker(t)
    /\ IF IsSome(a.subcommand) THEN sc_needs_docker(Unwrap(a.subcommand)) ELSE FALSE

\* lines 378-384: the dispatch gate, and what rustc says of emulation
Dispatch ==
    /\ pc = "dispatch"
    /\ IF UsesDocker(image_exists, Unwrap(target), args)
       THEN \E vm_needs_interpreter \in BOOLEAN :
               /\ calls' = Append(calls, Call("version_meta.needs_interpreter", Unit,
                                              Returns(vm_needs_interpreter)))
               /\ pc' = IF /\ vm_needs_interpreter
                           /\ NeedsInterpreter(args)
                           /\ target_needs_interpreter(Unwrap(target))
                        THEN "is_registered" ELSE "docker_run"
       ELSE /\ pc' = "cargo_run"
            /\ UNCHANGED calls
    /\ UNCHANGED << world, locals, result >>

\* line 385
IsRegistered ==
    /\ pc = "is_registered"
    /\ \/ /\ calls' = Append(calls, Call("interpreter::is_registered",
                                         Unwrap(target).triple, Fails))
          /\ Abort("interpreter::is_registered")
       \/ \E registered \in BOOLEAN :
             /\ calls' = Append(calls, Call("interpreter::is_registered",
                                            Unwrap(target).triple, Returns(registered)))
             /\ pc' = IF registered THEN "docker_run" ELSE "register"
             /\ UNCHANGED result
    /\ UNCHANGED << world, locals >>

\* line 387
Register ==
    /\ pc = "register"
    /\ \/ /\ calls' = Append(calls, Call("docker::register", Unwrap(target).triple,
                                         Fails))
          /\ Abort("docker::register")
       \/ /\ calls' = Append(calls, Call("docker::register", Unwrap(target).triple,
                                         Returns(Unit)))
          /\ pc' = "docker_run"
          /\ UNCHANGED result
    /\ UNCHANGED << world, locals >>

\* lines 390-402: the container run, whose answer is the result of run()
DockerRun ==
    /\ pc = "docker_run"
    /\ \/ /\ calls' = Append(calls, Call("env::current_dir", Unit, Fails))
          /\ Abort("env::current_dir")
       \/ \E ret \in FinalAnswers :
             /\ calls' = calls \o << Call("env::current_dir", Unit, Returns(Unit)),
                                     Call("docker::run", filtered_args, ret) >>
             /\ result' = RunResult("docker::run", ret)
             /\ pc' = "done"
    /\ UNCHANGED << world, locals >>

\* a pass-through that is handed the rewritten list
PassThroughArgsRewritten(a, filtered) == filtered

\* line 407: the arguments of the pass-through
PassThroughArgs(a, filtered) == a.all

\* src/cargo.rs 150, Command::new("cargo"): the binary of the pass-through
PassThroughBinary(env) == "cargo"

\* line 407 and src/cargo.rs 149-151: the pass-through; its call also
\* records the binary that was started
CargoRun ==
    /\ pc = "cargo_run"
    /\ \E ret \in FinalAnswers :
          /\ calls' = Append(calls, [fn |-> "cargo::run",
                                     arg |-> PassThroughArgs(args, filtered_args),
                                     ret |-> ret,
                                     bin |-> PassThroughBinary(cargo_env)])
          /\ result' = RunResult("cargo::run", ret)
    /\ pc' = "done"
    /\ UNCHANGED << world, locals >>

Next ==
    \/ Prelude
    \/ Metadata
    \/ Configure
    \/ Gate
    \/ Sysroot
    \/ InstalledToolchains
    \/ InstallToolchain
    \/ AvailableTargets
    \/ InstallTarget
    \/ RustSrc
    \/ InstallRustSrc
    \/ Clippy
    \/ InstallClippy
    \/ Image
    \/ Rewrite
    \/ Dispatch
    \/ IsRegistered
    \/ Register
    \/ DockerRun
    \/ CargoRun

Spec == Init /\ [][Next]_vars

(***************************************************************************)
(* Host::is_supported on its own (src/main.rs 61-93): every host, with and *)
(* without a target, under every value of the compatibility variable.      *)
(* `target` holds the Option<&Target> handed to it, `probe` its answer.    *)
(***************************************************************************)
GateHosts == Hosts \cup {HostOther("riscv64gc-unknown-linux-gnu")}

GateTargets ==
    {None} \cup
    {Some(TargetFrom(t, BuiltinTriples)) :
        t \in BuiltinTriples \cup {"riscv64gc-unknown-linux-gnu", "my-target"}}

\* CROSS_COMPATIBILITY_VERSION: unset, the legacy version, other values
GateCompatValues == {None, Some("0.2.1"), Some("0.2.10"), Some("0.2"), Some("")}

InitGate ==
    /\ pc = "is_supported"
    /\ host \in GateHosts
    /\ target \in GateTargets
    /\ compat \in GateCompatValues
    /\ probe = NoProbe
    /\ argv = << >>
    /\ cargo_env = None
    /\ args = NoArgs
    /\ config_target = None
    /\ channel = None
    /\ toolchain = ""
    /\ uses_xargo = FALSE
    /\ image_exists = FALSE
    /\ filtered_args = << >>
    /\ calls = << >>
    /\ result = Running

CallIsSupported ==
    /\ pc = "is_supported"
    /\ probe' = [fn |-> "is_supported", out |-> is_supported(host, target, compat)]
    /\ pc' = "returned"
    /\ UNCHANGED << argv, host, compat, cargo_env, locals, calls, result >>

NextGate == CallIsSupported

SpecGate == InitGate /\ [][NextGate]_vars

(***************************************************************************)
(* The argument rewrite on its own (src/main.rs 352-376): run() at line    *)
(* 352, for every command line of up to MaxRewriteArgs tokens, whatever    *)
(* the image probe answered.                                               *)
(***************************************************************************)
RewriteTokens ==
    {"build", "metadata", "--target", "--target=aarch64-unknown-linux-gnu",
     "--target-dir", "x"}

InitRewrite ==
    /\ pc = "rewrite"
    /\ argv \in SeqsUpTo(RewriteTokens, MaxRewriteArgs)
    /\ host = HostFrom("x86_64-unknown-linux-gnu")
    /\ compat = None
    /\ cargo_env = None
    /\ args = cli_parse(argv, BuiltinTriples)
    /\ config_target \in {None, Some(TargetFrom("aarch64-unknown-linux-musl",
                                                BuiltinTriples))}
    /\ target = Some(ResolveTarget(args, config_target, host, BuiltinTriples))
    /\ image_exists \in BOOLEAN
    /\ channel = None
    /\ toolchain = ""
    /\ uses_xargo = FALSE
    /\ filtered_args = << >>
    /\ calls = << >>
    /\ result = Running
    /\ probe = NoProbe

\* lines 352-376 once more, on the list that the rewrite returned
RewriteAgain ==
    /\ pc = "dispatch"
    /\ probe' = [fn |-> "rewrite",
                 out |-> FilteredArgs(args.subcommand, filtered_args, Unwrap(target))]
    /\ pc' = "returned"
    /\ UNCHANGED << argv, host, compat, cargo_env, locals, calls, result >>

NextRewrite == Rewrite \/ RewriteAgain

SpecRewrite == InitRewrite /\ [][NextRewrite]_vars

(***************************************************************************)
(* The methods of Target on their own: needs_docker of one target, and the *)
(* derived equality of two targets (held in `target` and `config_target`,  *)
(* the two Option<Target> that line 287 chooses between).                  *)
(***************************************************************************)
TargetTriples ==
    {"x86_64-unknown-linux-gnu", "arm-linux-androideabi", "x86_64-unknown-freebsd",
     "x86_64-unknown-dragonfly", "sparcv9-sun-solaris", "thumbv7m-none-eabi",
     "x86_64-pc-windows-gnu", "asmjs-unknown-emscripten", "aarch64-apple-darwin",
     "wasm32-unknown-unknown", "x86_64-unknown-illumos", "x86_64-unknown-LINUX-gnu",
     "my-target", ""}

TargetValues ==
    {new_built_in(t) : t \in TargetTriples} \cup {new_custom(t) : t \in TargetTriples}

InitTarget ==
    /\ pc = "target"
    /\ target \in {Some(t) : t \in TargetValues}
    /\ config_target \in {Some(t) : t \in TargetValues}
    /\ probe = NoProbe
    /\ argv = << >>
    /\ host = HostFrom("x86_64-unknown-linux-gnu")
    /\ compat = None
    /\ cargo_env = None
    /\ args = NoArgs
    /\ channel = None
    /\ toolchain = ""
    /\ uses_xargo = FALSE
    /\ image_exists = FALSE
    /\ filtered_args = << >>
    /\ calls = << >>
    /\ result = Running

CallNeedsDocker ==
    /\ pc = "target"
    /\ probe' = [fn |-> "needs_docker", out |-> needs_docker(Unwrap(target))]
    /\ pc' = "returned"
    /\ UNCHANGED << argv, host, compat, cargo_env, locals, calls, result >>

CallTargetEq ==
    /\ pc = "target"
    /\ probe' = [fn |-> "eq", out |-> TargetEq(Unwrap(target), Unwrap(config_target))]
    /\ pc' = "returned"
    /\ UNCHANGED << argv, host, compat, cargo_env, locals, calls, result >>

NextTarget == CallNeedsDocker \/ CallTargetEq

SpecTarget == InitTarget /\ [][NextTarget]_vars

(***************************************************************************)
(* CargoMetadata::path_dependencies on its own (src/cargo.rs 56-94), in    *)
(* the state where `cargo metadata` has just answered.  A package is a     *)
(* record of its id, manifest_path and source (an Option); the metadata is *)
(* the record of the packages and of the ids of the workspace members.     *)
(***************************************************************************)
\* the index of the last "/" of a path, 0 when it has none
LastSlash(path) ==
    LET slashes == {i \in 1..Len(path) : SubSeq(path, i, i) = "/"}
    IN  IF slashes = {} THEN 0 ELSE CHOOSE i \in slashes : \A j \in slashes : j <= i

\* Path::parent, for paths without a trailing separator: None for the
\* root and for the empty path, else the path without its last component
PathParent(path) ==
    IF path = "" \/ path = "/" THEN None
    ELSE IF LastSlash(path) = 0 THEN Some("")
    ELSE IF LastSlash(path) = 1 THEN Some("/")
    ELSE Some(SubSeq(path, 1, LastSlash(path) - 1))

\* a crate_path that forgets to look at the source
crate_path_of_any_source(p) == PathParent(p.manifest_path)

\* Package::crate_path
crate_path(p) == IF p.source = None THEN PathParent(p.manifest_path) ELSE None

\* CargoMetadata::non_workspace_members
non_workspace_members(m) ==
    SelectSeq(m.packages,
              LAMBDA p : ~\E i \in DOMAIN m.workspace_members :
                              m.workspace_members[i] = p.id)

RECURSIVE FilterMapCratePath(_)
\* filter_map(|p| p.crate_path())
FilterMapCratePath(ps) ==
    IF ps = << >> THEN << >>
    ELSE (IF IsSome(crate_path(Head(ps))) THEN << Unwrap(crate_path(Head(ps))) >>
          ELSE << >>) \o FilterMapCratePath(Tail(ps))

\* CargoMetadata::path_dependencies
path_dependencies(m) == FilterMapCratePath(non_workspace_members(m))

Package(id, manifest_path, source) ==
    [id |-> id, manifest_path |-> manifest_path, source |-> source]

\* the packages cargo metadata may report: workspace members and path
\* dependencies (no source), registry and git packages (a source), with the
\* id of a workspace member or another one
Packages ==
    {Package("app", "/ws/app/Cargo.toml", None),
     Package("app", "/ws/app/Cargo.toml", Some("registry+https://github.com/rust-lang/crates.io-index")),
     Package("util", "/ws/util/Cargo.toml", None),
     Package("serde", "/home/.cargo/registry/serde/Cargo.toml",
             Some("registry+https://github.com/rust-lang/crates.io-index")),
     Package("local", "/Cargo.toml", None)}

WorkspaceMemberLists == {<< >>, << "app" >>, << "util", "app" >>}

MetadataValues ==
    {[packages |-> ps, workspace_members |-> ws] :
        ps \in SeqsUpTo(Packages, MaxPackages), ws \in WorkspaceMemberLists}

InitMetadata ==
    /\ pc = "path_dependencies"
    /\ calls \in {<< Call("cargo metadata", "cargo", Returns(Some(m))) >> :
                     m \in MetadataValues}
    /\ probe = NoProbe
    /\ argv = << >>
    /\ host = HostFrom("x86_64-unknown-linux-gnu")
    /\ compat = None
    /\ cargo_env = None
    /\ args = NoArgs
    /\ config_target = None
    /\ target = None
    /\ channel = None
    /\ toolchain = ""
    /\ uses_xargo = FALSE
    /\ image_exists = FALSE
    /\ filtered_args = << >>
    /\ result = Running

\* the metadata that the query answered
AnsweredMetadata == Unwrap(calls[1].ret.val)

CallPathDependencies ==
    /\ pc = "path_dependencies"
    /\ probe' = [fn |-> "path_dependencies", out |-> path_dependencies(AnsweredMetadata)]
    /\ pc' = "returned"
    /\ UNCHANGED << argv, host, compat, cargo_env, locals, calls, result >>

NextMetadata == CallPathDependencies

SpecMetadata == InitMetadata /\ [][NextMetadata]_vars

(***************************************************************************)
(* The toolchain name on its own (src/main.rs 293-308), in the state where *)
(* rustc::sysroot has just answered with a path.                           *)
(***************************************************************************)
\* Path::file_name, for paths without a trailing separator or dot
\* components: None for the root and the empty path, else the last component
FileName(path) ==
    IF path = "" \/ path = "/" THEN None
    ELSE Some(SubSeq(path, LastSlash(path) + 1, Len(path)))

ToolchainDirs ==
    {"stable-x86_64-unknown-linux-gnu", "beta-aarch64-unknown-linux-gnu",
     "nightly-2022-01-01-x86_64-unknown-linux-gnu", "1.58.0-x86_64-apple-darwin",
     "stable", "my_toolchain", "stable-", "-musl", "a-b", "a--b", "-"}

SysrootPaths == {"/"} \cup {"/rustup/toolchains/" \o d : d \in ToolchainDirs}

\* args.channel: none, or the channel of `+channel`
ToolchainChannels ==
    {None, Some("nightly"), Some("beta"), Some("1.60.0"), Some("nightly-2022-06-01"),
     Some("")}

InitToolchain ==
    /\ pc = "toolchain"
    /\ channel \in ToolchainChannels
    /\ calls \in {<< Call("rustc::sysroot", Unit, Returns(path)) >> :
                     path \in SysrootPaths}
    /\ toolchain = ""
    /\ probe = NoProbe
    /\ argv = << >>
    /\ host = HostFrom("x86_64-unknown-linux-gnu")
    /\ compat = None
    /\ cargo_env = None
    /\ args = NoArgs
    /\ config_target = None
    /\ target = None
    /\ uses_xargo = FALSE
    /\ image_exists = FALSE
    /\ filtered_args = << >>
    /\ result = Running

\* the path that rustc::sysroot answered
AnsweredSysroot == calls[1].ret.val

\* lines 294-307
ResolveToolchain ==
    /\ pc = "toolchain"
    /\ IF IsSome(FileName(AnsweredSysroot))
       THEN /\ toolchain' = ToolchainName(channel, Unwrap(FileName(AnsweredSysroot)))
            /\ UNCHANGED result
       ELSE /\ result' = Err("couldn't get toolchain name")
            /\ UNCHANGED toolchain
    /\ pc' = "returned"
    /\ UNCHANGED << world, args, config_target, target, channel, uses_xargo,
                    image_exists, filtered_args, calls >>

NextToolchain == ResolveToolchain

SpecToolchain == InitToolchain /\ [][NextToolchain]_vars

(***************************************************************************)
(* What the properties below read off a state.                             *)
(***************************************************************************)
CallsOf(f) == {i \in DOMAIN calls : calls[i].fn = f}
Called(f) == \E i \in DOMAIN calls : calls[i].fn = f
\* the final calls: the container run and the pass-through
FinalCalls == {"docker::run", "cargo::run"}
\* run() returned the error of a stage that is not a final call
Aborted == result.kind = "Err" /\ result.by \notin FinalCalls

(***************************************************************************)
(* C1.  Whenever the pass-through executor (cargo::run) is invoked it is   *)
(* handed the command line the user typed, unchanged, on every path that   *)
(* reaches it; the rewritten list (filtered_args) is handed to the         *)
(* container runtime (docker::run) only.                                   *)
(***************************************************************************)
C1_PassThroughGetsOriginalArgs ==
    /\ \A i \in DOMAIN calls :
          /\ calls[i].fn = "cargo::run" => calls[i].arg = argv
          /\ calls[i].fn = "docker::run" => calls[i].arg = filtered_args

\* the pass-through ran after a rewrite that changed the list (the image
\* probe had failed)
C1_Witness ==
    /\ pc = "done"
    /\ Called("cargo::run")
    /\ Called("docker::image")
    /\ filtered_args # argv
    /\ filtered_args # << >>

(***************************************************************************)
(* C2.  If resolving the container image fails the run does not abort:     *)
(* the container runtime is never invoked in that run, the pass-through    *)
(* executor is invoked with the command line the user typed, and the       *)
(* result of the run is what the native tool answered (its exit status).   *)
(***************************************************************************)
ImageProbeFailed ==
    \E i \in DOMAIN calls : calls[i].fn = "docker::image" /\ ~calls[i].ret.ok

C2_ImageFailureFallsBack ==
    ImageProbeFailed =>
        /\ ~Called("docker::run")
        /\ ~Aborted
        /\ pc \in {"rewrite", "dispatch", "cargo_run", "done"}
        /\ pc = "done" =>
              /\ calls[Len(calls)].fn = "cargo::run"
              /\ calls[Len(calls)].arg = argv
              /\ result.by = "cargo::run"
              /\ calls[Len(calls)].ret.ok =>
                    /\ result.kind = "Ok"
                    /\ result.status = calls[Len(calls)].ret.val
              /\ ~calls[Len(calls)].ret.ok => result.kind = "Err"

\* the probe failed and the run returned the exit status 101 of the native tool
C2_Witness ==
    /\ pc = "done"
    /\ ImageProbeFailed
    /\ Called("cargo::run")
    /\ result = Ok("cargo::run", 101)

(***************************************************************************)
(* C3.  In a run that reaches the dispatch gate and meets no fatal error,  *)
(* the container runtime is invoked if and only if the image resolved AND  *)
(* needs_docker(target) AND the subcommand needs isolation (no subcommand  *)
(* and Subcommand::Other do not); otherwise the pass-through is invoked.   *)
(***************************************************************************)
C3_IsolationCondition ==
    /\ \E i \in DOMAIN calls : calls[i].fn = "docker::image" /\ calls[i].ret.ok
    /\ args.subcommand # None
    /\ args.subcommand # Some("Other")
    /\ needs_docker(Unwrap(target))

C3_DispatchGate ==
    (pc = "done" /\ Called("docker::image") /\ ~Aborted) =>
        IF C3_IsolationCondition
        THEN Called("docker::run") /\ ~Called("cargo::run")
        ELSE Called("cargo::run") /\ ~Called("docker::run")

\* a run that went through the gate into the container
C3_Witness ==
    /\ pc = "done"
    /\ Called("docker::image")
    /\ Called("docker::run")
    /\ result.kind = "Ok"

(***************************************************************************)
(* C4.  If any stage other than the image probe fails (metadata, Cross.toml,*)
(* sysroot, listing or installing a toolchain, a target, a component,      *)
(* querying or registering emulation, ...) the run ends there with an      *)
(* error, and neither the container runtime nor the pass-through executor  *)
(* is invoked in that run.                                                 *)
(***************************************************************************)
C4_FatalStageAborts ==
    \A i \in DOMAIN calls :
        (calls[i].fn \notin ({"docker::image"} \cup FinalCalls) /\ ~calls[i].ret.ok) =>
            /\ i = Len(calls)
            /\ pc = "done"
            /\ result.kind = "Err"
            /\ result.by = calls[i].fn
            /\ ~Called("docker::run")
            /\ ~Called("cargo::run")

\* the install of a component failed, late in the run
C4_Witness ==
    /\ pc = "done"
    /\ result = Err("rustup::install_component")
    /\ ~calls[Len(calls)].ret.ok

(***************************************************************************)
(* C5.  Host x86_64-unknown-linux-gnu, no target from the user nor from    *)
(* the configuration, subcommand build, default policy: the host gate is   *)
(* false and the run goes to the pass-through with the original arguments, *)
(* without any toolchain-manager call or image-resolution call.            *)
(***************************************************************************)
ToolchainOrImageCalls ==
    {"rustup::installed_toolchains", "rustup::install_toolchain",
     "rustup::available_targets", "rustup::install",
     "rustup::component_is_installed", "rustup::install_component",
     "docker::image"}

C5_Scenario ==
    /\ host = HostFrom("x86_64-unknown-linux-gnu")
    /\ compat # Some("0.2.1")
    /\ target # None
    /\ args.target = None
    /\ config_target = None
    /\ args.subcommand = Some("Build")

C5_NoTargetOnLinuxRunsNatively ==
    C5_Scenario =>
        /\ pc \in {"gate", "cargo_run", "done"}
        /\ \A i \in DOMAIN calls : calls[i].fn \notin ToolchainOrImageCalls
        /\ pc = "done" =>
              /\ calls[Len(calls)].fn = "cargo::run"
              /\ calls[Len(calls)].arg = argv

(***************************************************************************)
(* C6.  Rewrite, ensure-present branch: for a subcommand that wants the    *)
(* target flag (all but metadata, and no subcommand), if the list holds no *)
(* target flag (no `--target` token, no `--target=<value>` token; a token  *)
(* such as `--target-dir` is none) the rewritten list is the original one  *)
(* followed by `--target`, `<triple>`; else it is the original list.       *)
(***************************************************************************)
HasTargetFlag(all) ==
    \E i \in 1..Len(all) : all[i] = "--target" \/ StartsWith(all[i], "--target=")

C6_EnsureTargetPresent ==
    (pc = "dispatch" /\ args.subcommand # Some("Metadata")) =>
        filtered_args = IF HasTargetFlag(argv)
                        THEN argv
                        ELSE argv \o << "--target", Unwrap(target).triple >>

(***************************************************************************)
(* C7.  Rewrite, strip branch (subcommand metadata).  As claimed: the      *)
(* rewritten list is the original list without every `--target` token,     *)
(* without the token after each of them, and without every                 *)
(* `--target=<value>` token.                                               *)
(***************************************************************************)
StrippedLiterally(all, i) ==
    \/ all[i] = "--target"
    \/ i > 1 /\ all[i - 1] = "--target"
    \/ StartsWith(all[i], "--target=")

RECURSIVE KeptLiterally(_, _)
\* the tokens of all[1..n] that StrippedLiterally leaves, in their order
KeptLiterally(all, n) ==
    IF n = 0 THEN << >>
    ELSE IF StrippedLiterally(all, n) THEN KeptLiterally(all, n - 1)
    ELSE Append(KeptLiterally(all, n - 1), all[n])

C7_StripEveryTargetAndFollower ==
    (pc = "dispatch" /\ args.subcommand = Some("Metadata")) =>
        filtered_args = KeptLiterally(argv, Len(argv))

(***************************************************************************)
(* C7, as amended.  Reading the list from left to right, a `--target`      *)
(* token takes the token after it as its value, whatever that token is; a  *)
(* token taken as a value is not itself a flag.  The rewritten list is the *)
(* original list without every `--target` flag, its value, and every       *)
(* `--target=<value>` token; it holds no `--target` and no `--target=...`  *)
(* token, every other argument is kept, in its order, and the result is    *)
(* the same whether the image resolved or not.                             *)
(***************************************************************************)
RECURSIVE IsTargetValue(_, _)
\* token i is the value of the `--target` flag before it
IsTargetValue(all, i) ==
    i > 1 /\ all[i - 1] = "--target" /\ ~IsTargetValue(all, i - 1)

Stripped(all, i) ==
    \/ IsTargetValue(all, i)
    \/ all[i] = "--target"
    \/ StartsWith(all[i], "--target=")

RECURSIVE Kept(_, _)
\* the tokens of all[1..n] that Stripped leaves, in their order
Kept(all, n) ==
    IF n = 0 THEN << >>
    ELSE IF Stripped(all, n) THEN Kept(all, n - 1)
    ELSE Append(Kept(all, n - 1), all[n])

C7_StripTargetFlagsAndValues ==
    (pc = "dispatch" /\ args.subcommand = Some("Metadata")) =>
        /\ filtered_args = Kept(argv, Len(argv))
        /\ \A i \in DOMAIN filtered_args :
              /\ filtered_args[i] # "--target"
              /\ ~StartsWith(filtered_args[i], "--target=")

\* both forms were stripped from a metadata command line, the value of
\* `--target` with it, and the image had not resolved
C7_Witness ==
    /\ pc = "dispatch"
    /\ ~image_exists
    /\ argv = << "metadata", "--target", "x", "--target=aarch64-unknown-linux-gnu" >>
    /\ filtered_args = << "metadata" >>

(***************************************************************************)
(* C8.  docker::register is invoked in a run if and only if the isolation  *)
(* path is taken, the host reports that it needs emulation support, the    *)
(* subcommand is run, test or bench, the target needs an interpreter and   *)
(* the registrar reports that emulation is not registered; it is invoked   *)
(* at most once, before the container runtime, and never in a run that     *)
(* ends on the pass-through path.                                          *)
(***************************************************************************)
C8_RegistrationCondition ==
    /\ \E i \in DOMAIN calls :
          /\ calls[i].fn = "interpreter::is_registered"
          /\ calls[i].ret.ok
          /\ ~calls[i].ret.val
    /\ \E i \in DOMAIN calls :
          calls[i].fn = "version_meta.needs_interpreter" /\ calls[i].ret.val
    /\ args.subcommand \in {Some("Run"), Some("Test"), Some("Bench")}
    /\ target_needs_interpreter(Unwrap(target))
    /\ C3_IsolationCondition

C8_RegisterIffNeeded ==
    /\ pc \in {"docker_run", "cargo_run", "done"} =>
          (Called("docker::register") <=> C8_RegistrationCondition)
    /\ Cardinality(CallsOf("docker::register")) <= 1
    /\ \A i \in CallsOf("docker::register") :
          \A j \in CallsOf("docker::run") : i < j
    /\ (pc = "cargo_run" \/ Called("cargo::run")) => ~Called("docker::register")

\* emulation was registered and the container ran after it
C8_Witness ==
    /\ pc = "done"
    /\ Called("docker::register")
    /\ Called("docker::run")
    /\ C8_RegistrationCondition

(***************************************************************************)
(* C9.  Default policy: when CROSS_COMPATIBILITY_VERSION is unset or holds *)
(* any value other than exactly "0.2.1", is_supported(host, Some(target))  *)
(* equals needs_docker(target) for every host, Other and a host whose      *)
(* triple is the target's included: the host does not matter.              *)
(***************************************************************************)
C9_DefaultPolicyIgnoresHost ==
    (pc = "returned" /\ compat # Some("0.2.1") /\ IsSome(target)) =>
        probe.out = needs_docker(Unwrap(target))

\* a host asked about its own triple under a version that only starts with
\* the legacy one: the default policy answered, and asked for isolation
C9_Witness ==
    /\ pc = "returned"
    /\ compat = Some("0.2.10")
    /\ host = HostFrom("x86_64-unknown-linux-gnu")
    /\ target = Some(TargetFrom("x86_64-unknown-linux-gnu", BuiltinTriples))
    /\ probe.out

(***************************************************************************)
(* C10.  As claimed: when no target is supplied, is_supported(host, None)  *)
(* is false for every host, whatever CROSS_COMPATIBILITY_VERSION holds.    *)
(***************************************************************************)
C10_NoTargetNeverSupported ==
    (pc = "returned" /\ target = None) => ~probe.out

(***************************************************************************)
(* C10, as amended.  When no target is supplied, is_supported(host, None)  *)
(* is false for every host, except under the legacy table                  *)
(* (CROSS_COMPATIBILITY_VERSION exactly "0.2.1") on the four Linux hosts   *)
(* x86_64-unknown-linux-gnu, aarch64-unknown-linux-gnu,                    *)
(* x86_64-unknown-linux-musl and aarch64-unknown-linux-musl, where it is   *)
(* true.                                                                   *)
(***************************************************************************)
LegacyLinuxHosts ==
    {HostFrom(t) : t \in {"x86_64-unknown-linux-gnu", "aarch64-unknown-linux-gnu",
                          "x86_64-unknown-linux-musl", "aarch64-unknown-linux-musl"}}

C10_NoTargetSupportedOnlyOnLegacyLinux ==
    (pc = "returned" /\ target = None) =>
        (probe.out <=> (compat = Some("0.2.1") /\ host \in LegacyLinuxHosts))

\* the legacy table, asked without a target on an Apple host, answered no
C10_Witness ==
    /\ pc = "returned"
    /\ target = None
    /\ compat = Some("0.2.1")
    /\ host = HostFrom("aarch64-apple-darwin")
    /\ ~probe.out

(***************************************************************************)
(* C11.  Legacy table (CROSS_COMPATIBILITY_VERSION exactly "0.2.1"):       *)
(* Apple hosts: needs_docker(target) with a target, false without; the     *)
(* four Linux hosts: needs_docker(target) with a target, true without; the *)
(* Windows MSVC host: true iff a target is given, its triple is not        *)
(* "x86_64-pc-windows-msvc" and needs_docker(target); Other: false.        *)
(***************************************************************************)
C11_LegacyRow ==
    CASE host \in {HostFrom("x86_64-apple-darwin"), HostFrom("aarch64-apple-darwin")} ->
            IsSome(target) /\ needs_docker(Unwrap(target))
      [] host \in LegacyLinuxHosts ->
            ~IsSome(target) \/ needs_docker(Unwrap(target))
      [] host = HostFrom("x86_64-pc-windows-msvc") ->
            /\ IsSome(target)
            /\ Unwrap(target).triple # "x86_64-pc-windows-msvc"
            /\ needs_docker(Unwrap(target))
      [] OTHER -> FALSE

C11_LegacyTable ==
    (pc = "returned" /\ compat = Some("0.2.1")) => probe.out = C11_LegacyRow

\* the Windows host asked about its own triple under the legacy table: no
\* isolation, although the target alone would need it
C11_Witness ==
    /\ pc = "returned"
    /\ compat = Some("0.2.1")
    /\ host = HostFrom("x86_64-pc-windows-msvc")
    /\ target = Some(TargetFrom("x86_64-pc-windows-msvc", BuiltinTriples))
    /\ needs_docker(Unwrap(target))
    /\ ~probe.out

(***************************************************************************)
(* C12.  needs_docker(target) is true iff the target is Custom or its      *)
(* triple contains one of "linux", "android", "bsd", "dragonfly",          *)
(* "solaris", "thumb", "windows", "emscripten", "apple": every Custom      *)
(* target needs isolation, and a BuiltIn target whose triple holds none of *)
(* these does not.                                                         *)
(***************************************************************************)
IsolationSubstrings ==
    {"linux", "android", "bsd", "dragonfly", "solaris", "thumb", "windows",
     "emscripten", "apple"}

C12_NeedsDockerIffCustomOrSubstring ==
    (pc = "returned" /\ probe.fn = "needs_docker") =>
        (probe.out <=>
            \/ ~Unwrap(target).builtin
            \/ \E sub \in IsolationSubstrings : Contains(Unwrap(target).triple, sub))

\* a BuiltIn Apple target needs isolation
C12_Witness ==
    /\ pc = "returned"
    /\ probe.fn = "needs_docker"
    /\ target = Some(new_built_in("aarch64-apple-darwin"))
    /\ probe.out

(***************************************************************************)
(* C14.  As claimed: Target equality is by triple only: two targets are    *)
(* equal iff their triples are equal, so a BuiltIn and a Custom target     *)
(* with the same triple are equal.                                         *)
(***************************************************************************)
C14_EqualIffSameTriple ==
    (pc = "returned" /\ probe.fn = "eq") =>
        (probe.out <=> Unwrap(target).triple = Unwrap(config_target).triple)

(***************************************************************************)
(* C14, as amended.  Target equality is by variant and triple: two targets *)
(* are equal iff they are of the same variant (both BuiltIn or both        *)
(* Custom) and their triples are equal; a BuiltIn and a Custom target with *)
(* the same triple are not equal.                                          *)
(***************************************************************************)
C14_EqualIffSameVariantAndTriple ==
    (pc = "returned" /\ probe.fn = "eq") =>
        (probe.out <=> Unwrap(target) = Unwrap(config_target))

\* a BuiltIn and a Custom target with the same triple were compared: unequal
C14_Witness ==
    /\ pc = "returned"
    /\ probe.fn = "eq"
    /\ Unwrap(target).triple = Unwrap(config_target).triple
    /\ Unwrap(target).builtin
    /\ ~Unwrap(config_target).builtin
    /\ ~probe.out

(***************************************************************************)
(* C13.  path_dependencies(metadata) yields exactly the manifest-parent    *)
(* directories of the packages that are absent from workspace_members and  *)
(* have no source, in the order of the package list: a workspace member is *)
(* left out whatever its source, and so is every package with a source.    *)
(***************************************************************************)
IsPathDependency(m, i) ==
    /\ m.packages[i].id \notin {m.workspace_members[j] : j \in DOMAIN m.workspace_members}
    /\ m.packages[i].source = None

RECURSIVE PathDependencyDirs(_, _)
\* the manifest-parent directories of the path dependencies among the
\* first n packages, in their order
PathDependencyDirs(m, n) ==
    IF n = 0 THEN << >>
    ELSE IF IsPathDependency(m, n)
    THEN PathDependencyDirs(m, n - 1) \o PathParent(m.packages[n].manifest_path)
    ELSE PathDependencyDirs(m, n - 1)

C13_PathDependencies ==
    (pc = "returned" /\ probe.fn = "path_dependencies") =>
        probe.out = PathDependencyDirs(AnsweredMetadata, Len(AnsweredMetadata.packages))

\* a path dependency between a workspace member without a source and a
\* registry package: its directory alone is the answer
C13_Witness ==
    /\ pc = "returned"
    /\ probe.fn = "path_dependencies"
    /\ AnsweredMetadata.workspace_members = << "app" >>
    /\ Len(AnsweredMetadata.packages) = 3
    /\ AnsweredMetadata.packages[1] = Package("app", "/ws/app/Cargo.toml", None)
    /\ AnsweredMetadata.packages[2].id = "util"
    /\ AnsweredMetadata.packages[3].id = "serde"
    /\ probe.out = << "/ws/util" >>

(***************************************************************************)
(* C15.  If the metadata query answers that there is no project, the run   *)
(* calls the pass-through with the original argument list and makes no     *)
(* other call after the query: no configuration, no toolchain manager, no  *)
(* image probe, no registration, no container.                             *)
(***************************************************************************)
NoProjectAt(i) ==
    /\ calls[i].fn = "cargo metadata"
    /\ calls[i].ret.ok
    /\ calls[i].ret.val = None

C15_NoProjectPassesThrough ==
    \A i \in DOMAIN calls :
        NoProjectAt(i) =>
            /\ pc \in {"cargo_run", "done"}
            /\ \A j \in (i + 1)..Len(calls) :
                  calls[j].fn = "cargo::run" /\ calls[j].arg = argv
            /\ pc = "done" => Len(calls) = i + 1

\* a test command line outside a project went to the pass-through
C15_Witness ==
    /\ pc = "done"
    /\ argv = << "test", "--target=aarch64-unknown-linux-gnu" >>
    /\ Len(calls) = 4
    /\ NoProjectAt(3)
    /\ calls[4].fn = "cargo::run"
    /\ result.kind = "Ok"

(***************************************************************************)
(* C16.  On the ensure-present branch (every subcommand but metadata, and  *)
(* none) the rewrite is idempotent: applied to a list it has rewritten,    *)
(* for the same target, it returns that list, with no second `--target`.   *)
(***************************************************************************)
C16_RewriteIdempotent ==
    (pc = "returned" /\ probe.fn = "rewrite" /\ args.subcommand # Some("Metadata")) =>
        probe.out = filtered_args

\* the flag was appended by the first application and not by the second
C16_Witness ==
    /\ pc = "returned"
    /\ probe.fn = "rewrite"
    /\ argv = << "build", "x" >>
    /\ filtered_args = argv \o << "--target", Unwrap(target).triple >>
    /\ probe.out = filtered_args

(***************************************************************************)
(* C17.  When CARGO is set, every invocation of cargo made by a run uses   *)
(* the binary it names: the metadata query and the pass-through start the  *)
(* same binary.                                                            *)
(***************************************************************************)
C17_OverrideUsedByEveryInvocation ==
    IsSome(cargo_env) =>
        \A i \in DOMAIN calls :
            /\ calls[i].fn = "cargo metadata" => calls[i].arg = Unwrap(cargo_env)
            /\ calls[i].fn = "cargo::run" => calls[i].bin = Unwrap(cargo_env)

(***************************************************************************)
(* C18.  When the install stage is over: the alternate builder (xargo) is  *)
(* used iff the override of the configuration says so or, without an       *)
(* override, the target is not builtin or not in the available list; the   *)
(* target is installed iff the alternate builder is not used, the target   *)
(* is available and it is not installed; in every other case rust-src is   *)
(* asked for and installed iff it is reported missing; no run installs     *)
(* both; clippy is asked for iff the subcommand is clippy and installed    *)
(* iff it is then reported missing.                                        *)
(***************************************************************************)
\* what the only call of f answered
AnswerOf(f) == calls[CHOOSE i \in DOMAIN calls : calls[i].fn = f].ret.val

CalledWith(f, a) == \E i \in DOMAIN calls : calls[i].fn = f /\ calls[i].arg = a

ReportedMissing(component) ==
    \E i \in DOMAIN calls :
        /\ calls[i].fn = "rustup::component_is_installed"
        /\ calls[i].arg = component
        /\ ~calls[i].ret.val

C18_XargoExpected ==
    IF IsSome(AnswerOf("config.xargo"))
    THEN Unwrap(AnswerOf("config.xargo"))
    ELSE \/ ~Unwrap(target).builtin
         \/ ~AnswerOf("rustup::available_targets").contains

C18_TargetInstallExpected ==
    /\ ~C18_XargoExpected
    /\ AnswerOf("rustup::available_targets").contains
    /\ ~AnswerOf("rustup::available_targets").is_installed

C18_InstallDecision ==
    pc = "image" =>
        /\ uses_xargo = C18_XargoExpected
        /\ Called("rustup::install") <=> C18_TargetInstallExpected
        /\ CalledWith("rustup::component_is_installed", "rust-src")
              <=> ~C18_TargetInstallExpected
        /\ CalledWith("rustup::install_component", "rust-src")
              <=> (~C18_TargetInstallExpected /\ ReportedMissing("rust-src"))
        /\ ~(Called("rustup::install")
             /\ CalledWith("rustup::install_component", "rust-src"))
        /\ CalledWith("rustup::component_is_installed", "clippy")
              <=> args.subcommand = Some("Clippy")
        /\ CalledWith("rustup::install_component", "clippy")
              <=> (args.subcommand = Some("Clippy") /\ ReportedMissing("clippy"))

\* the override turned the alternate builder off for an available target that
\* was not installed: the target was installed, rust-src was not asked for
C18_Witness ==
    /\ pc = "image"
    /\ AnswerOf("config.xargo") = Some(FALSE)
    /\ ~uses_xargo
    /\ Called("rustup::install")
    /\ ~CalledWith("rustup::component_is_installed", "rust-src")
    /\ args.subcommand = Some("Clippy")
    /\ CalledWith("rustup::install_component", "clippy")

(***************************************************************************)
(* C19.  The toolchain name: without a channel it is the last segment of   *)
(* the sysroot path; with a channel it is the channel, then `-` and all    *)
(* that follows the first hyphen of that segment (only the first segment   *)
(* is replaced); when the segment has no hyphen it is the channel alone.   *)
(***************************************************************************)
IsHyphenAt(s, i) == SubSeq(s, i, i) = "-"

C19_Expected(name) ==
    IF channel = None THEN toolchain = name
    ELSE IF \A i \in 1..Len(name) : ~IsHyphenAt(name, i)
    THEN toolchain = Unwrap(channel)
    ELSE \E i \in 1..Len(name) :
            /\ IsHyphenAt(name, i)
            /\ \A j \in 1..(i - 1) : ~IsHyphenAt(name, j)
            /\ toolchain = Unwrap(channel) \o "-" \o SubSeq(name, i + 1, Len(name))

C19_ToolchainName ==
    (pc = "returned" /\ result.kind = "Running"
        /\ Len(calls) = 1 /\ calls[1].fn = "rustc::sysroot") =>
        C19_Expected(Unwrap(FileName(AnsweredSysroot)))

\* only the channel of a dated nightly was replaced
C19_Witness ==
    /\ pc = "returned"
    /\ Len(calls) = 1
    /\ calls[1].fn = "rustc::sysroot"
    /\ AnsweredSysroot = "/rustup/toolchains/nightly-2022-01-01-x86_64-unknown-linux-gnu"
    /\ channel = Some("beta")
    /\ toolchain = "beta-2022-01-01-x86_64-unknown-linux-gnu"

(***************************************************************************)
(* C20.  The order of the stages in every run: the metadata query comes    *)
(* before every call to rustup; the toolchain is ensured (listed, then     *)
(* installed if it is missing) before the available targets or a component *)
(* are asked of it; every install comes before the image probe; the probe  *)
(* comes before the registration; and the final execution (docker::run or  *)
(* cargo::run) is the last call of the run.                                *)
(***************************************************************************)
RustupCalls ==
    {"rustup::installed_toolchains", "rustup::install_toolchain",
     "rustup::available_targets", "rustup::install",
     "rustup::component_is_installed", "rustup::install_component"}

ToolchainUses ==
    {"rustup::available_targets", "rustup::install",
     "rustup::component_is_installed", "rustup::install_component"}

\* no call of `later` is followed by a call of `earlier`
AllBefore(earlier, later) ==
    \A i \in DOMAIN calls :
        calls[i].fn \in later =>
            \A j \in (i + 1)..Len(calls) : calls[j].fn \notin earlier

\* every call of `later` comes after a call of `earlier` that succeeded
ComesAfter(earlier, later) ==
    \A i \in DOMAIN calls :
        calls[i].fn \in later =>
            \E j \in 1..(i - 1) : calls[j].fn = earlier /\ calls[j].ret.ok

C20_StageOrder ==
    /\ ComesAfter("cargo metadata", RustupCalls)
    /\ AllBefore({"cargo metadata"}, RustupCalls)
    /\ ComesAfter("rustup::installed_toolchains",
                  ToolchainUses \cup {"rustup::install_toolchain"})
    /\ AllBefore({"rustup::installed_toolchains"}, {"rustup::install_toolchain"})
    /\ AllBefore({"rustup::installed_toolchains", "rustup::install_toolchain"},
                 ToolchainUses)
    /\ Called("rustup::available_targets") =>
          (Called("rustup::install_toolchain")
              <=> toolchain \notin AnswerOf("rustup::installed_toolchains"))
    /\ AllBefore(RustupCalls, {"docker::image"})
    /\ ComesAfter("docker::image", {"docker::register"})
    /\ AllBefore({"docker::image"}, {"docker::register"})
    /\ \A i \in DOMAIN calls : calls[i].fn \in FinalCalls => i = Len(calls)

\* a run that installed the toolchain and the target, probed the image,
\* registered the emulation and ended in the container
C20_Witness ==
    /\ pc = "done"
    /\ Called("rustup::install_toolchain")
    /\ Called("rustup::install")
    /\ Called("docker::register")
    /\ calls[Len(calls)].fn = "docker::run"

(***************************************************************************)
(* C21.  No install of what was reported installed: install_toolchain is   *)
(* called only for a toolchain that the list of installed toolchains does  *)
(* not hold, the target install only after the target was reported not     *)
(* installed, and the install of a component (rust-src, clippy) only after *)
(* the query for that component reported it missing.                       *)
(***************************************************************************)
\* an earlier call of f succeeded, and its answer satisfies `accepts`
AnsweredBefore(i, f, accepts(_)) ==
    \E j \in 1..(i - 1) :
        calls[j].fn = f /\ calls[j].ret.ok /\ accepts(calls[j])

C21_InstallOnlyIfMissing ==
    \A i \in DOMAIN calls :
        /\ calls[i].fn = "rustup::install_toolchain" =>
              AnsweredBefore(i, "rustup::installed_toolchains",
                             LAMBDA c : calls[i].arg \notin c.ret.val)
        /\ calls[i].fn = "rustup::install" =>
              AnsweredBefore(i, "rustup::available_targets",
                             LAMBDA c : ~c.ret.val.is_installed)
        /\ calls[i].fn = "rustup::install_component" =>
              AnsweredBefore(i, "rustup::component_is_installed",
                             LAMBDA c : c.arg = calls[i].arg /\ ~c.ret.val)

\* a run that installed the toolchain, rust-src and clippy, each after it
\* was reported missing
C21_Witness ==
    /\ pc = "image"
    /\ Called("rustup::install_toolchain")
    /\ CalledWith("rustup::install_component", "rust-src")
    /\ CalledWith("rustup::install_component", "clippy")
    /\ ReportedMissing("rust-src")
    /\ ReportedMissing("clippy")

(***************************************************************************)
(* C22.  Exactly one execution per run: at most one of the container run   *)
(* (docker::run) and the pass-through execution (cargo::run) is invoked,   *)
(* and at most once; a run that ended without a fatal error invoked        *)
(* exactly one of them; and when the container run was invoked, its answer *)
(* (its exit status, or its failure) is the result of the run and the      *)
(* pass-through executor is not invoked after it.                          *)
(***************************************************************************)
IsFinalCall(i) == calls[i].fn \in FinalCalls

C22_AtMostOneExecution ==
    \A i \in DOMAIN calls :
        IsFinalCall(i) => \A j \in DOMAIN calls : IsFinalCall(j) => j = i

C22_EndedRunExecuted ==
    (pc = "done" /\ ~Aborted) => \E i \in DOMAIN calls : IsFinalCall(i)

C22_ContainerRunIsResult ==
    \A i \in DOMAIN calls :
        calls[i].fn = "docker::run" =>
            /\ pc = "done"
            /\ i = Len(calls)
            /\ IF calls[i].ret.ok
               THEN /\ result.kind = "Ok"
                    /\ result.status = calls[i].ret.val
               ELSE result = Err("docker::run")

C22_ExactlyOneExecution ==
    /\ C22_AtMostOneExecution
    /\ C22_EndedRunExecuted
    /\ C22_ContainerRunIsResult

\* a container run that exited with a failure status, which the run returns
C22_Witness ==
    /\ pc = "done"
    /\ \E i \in DOMAIN calls :
           /\ calls[i].fn = "docker::run"
           /\ calls[i].ret.ok
           /\ calls[i].ret.val = 101
    /\ result = Ok("docker::run", 101)

====
